---- MODULE Spec2Model ----
(***************************************************************************)
(* Model of the ORE allocation optimizer (src/main.py): the valuation      *)
(* model compute_ev / compute_expected_return_and_components and the       *)
(* greedy allocator greedy_optimize.                                       *)
(*                                                                         *)
(* Numbers.  The program computes in float64.  The model computes in exact *)
(* rational arithmetic: a number is a record [num, den] in lowest terms    *)
(* with den > 0.  Every property below is therefore a property of the      *)
(* program's arithmetic up to float64 rounding.  Vectors are functions     *)
(* over 0..n-1, so indices are the program's 0-based indices.              *)
(***************************************************************************)
EXTENDS Integers, FiniteSets, TLC

VARIABLES
    T_other_gross,   \* argument: opponents' stake per block
    budget,          \* argument
    unit,            \* argument
    protocol_fee,    \* argument
    max_iters,       \* argument / local: {} is None, {k} is the integer k
    pc,              \* position in greedy_optimize, or the exception raised
    s,               \* local: allocation vector
    remaining_units, \* local
    step,            \* number of items of range(max_iters) consumed so far
    base_score,      \* local
    best_idx,        \* local: -1 is None
    best_delta,      \* local
    i,               \* local: index of the inner scan
    ev_hist          \* compute_ev calls made by a caller on fixed vectors

vars == <<T_other_gross, budget, unit, protocol_fee, max_iters, pc, s,
          remaining_units, step, base_score, best_idx, best_delta, i, ev_hist>>

-----------------------------------------------------------------------------
(* Bounds of the model's input space. *)

\* number of leading blocks whose opponent stake is chosen freely
MaxFree == 1
\* budgets range over -MaxHalfUnits/2 .. MaxHalfUnits/2 units
MaxHalfUnits == 4
\* explicit max_iters arguments range over -1 .. MaxItersArg
MaxItersArg == 3
\* allocations handed to compute_ev directly hold 0 .. MaxAlloc units per block
MaxAlloc == 1

\* the grid size greedy_optimize asserts
GRID_SIZE == 25

-----------------------------------------------------------------------------
(* Exact rational arithmetic. *)

Abs(x) == IF x < 0 THEN -x ELSE x

RECURSIVE GCD(_, _)
GCD(a, b) == IF b = 0 THEN a ELSE GCD(b, a % b)

Rat(n, d) ==
    IF d = 1 THEN [num |-> n, den |-> 1]
    ELSE LET g == GCD(Abs(n), d)
         IN  [num |-> n \div g, den |-> d \div g]

FromInt(k) == [num |-> k, den |-> 1]

Zero == FromInt(0)

RNeg(a) == [num |-> -a.num, den |-> a.den]

RAdd(a, b) ==
    IF a.den = b.den THEN Rat(a.num + b.num, a.den)
    ELSE LET g == GCD(a.den, b.den)
             l == (a.den \div g) * b.den
         IN  Rat(a.num * (l \div a.den) + b.num * (l \div b.den), l)

RSub(a, b) == RAdd(a, RNeg(b))

RMul(a, b) ==
    IF a.num = 0 THEN Zero
    ELSE IF b.num = 0 THEN Zero
    ELSE LET g1 == GCD(Abs(a.num), b.den)
             g2 == GCD(Abs(b.num), a.den)
         IN  [num |-> (a.num \div g1) * (b.num \div g2),
              den |-> (a.den \div g2) * (b.den \div g1)]

Recip(b) ==
    IF b.num > 0 THEN [num |-> b.den, den |-> b.num]
    ELSE [num |-> -b.den, den |-> -b.num]

RDiv(a, b) == RMul(a, Recip(b))

RLt(a, b) == RSub(a, b).num < 0

RLe(a, b) == RSub(a, b).num <= 0

\* a * x for an integer a
Scale(a, x) == RMul(FromInt(a), x)

-----------------------------------------------------------------------------
(* Vectors: numpy arrays of float64. *)

\* len(v)
VLen(v) == Cardinality(DOMAIN v)

\* the sum of v[lo..hi], split in halves
RECURSIVE SumRange(_, _, _)
SumRange(v, lo, hi) ==
    IF lo > hi THEN Zero
    ELSE IF lo = hi THEN v[lo]
    ELSE LET mid == (lo + hi) \div 2
         IN  RAdd(SumRange(v, lo, mid), SumRange(v, mid + 1, hi))

\* v.sum()
Sum(v) == SumRange(v, 0, VLen(v) - 1)

\* T_net + s_net
VecAdd(a, b) == [j \in DOMAIN a |-> RAdd(a[j], b[j])]

\* np.zeros(n)
Zeros(n) == [j \in 0..(n - 1) |-> Zero]

\* s_test = s.copy(); s_test[i] += unit
AddUnit(v, j, u) == [v EXCEPT ![j] = RAdd(@, u)]

-----------------------------------------------------------------------------
(* The valuation model. *)

\* line 75: a block nobody staked in is skipped
SkipBlock(denom) == denom.num <= 0

\* line 79: the pro-rata share of the stake in all other blocks
Reward(s_i, denom, sum_others) == RMul(RDiv(s_i, denom), sum_others)

\* lines 77-81: what block j adds to expected_return
Payout(s_net, total_net, total_net_sum, j) ==
    LET denom == total_net[j]
        sum_others == RSub(total_net_sum, denom)
    IN  IF SkipBlock(denom) THEN Zero
        ELSE RAdd(s_net[j], Reward(s_net[j], denom, sum_others))

\* line 84: what block j adds to ore_expected_raw
OreShare(s_net, total_net, j) ==
    IF SkipBlock(total_net[j]) THEN Zero ELSE RDiv(s_net[j], total_net[j])

\* lines 67-86: expected_return, the mean payout over the n blocks
ExpectedReturn(T_net, s_net) ==
    LET total_net == VecAdd(T_net, s_net)
        total_net_sum == Sum(total_net)
    IN  RDiv(Sum([j \in DOMAIN T_net |->
                     Payout(s_net, total_net, total_net_sum, j)]),
             FromInt(VLen(T_net)))

\* lines 67-87: ore_expected_raw
OreExpectedRaw(T_net, s_net) ==
    LET total_net == VecAdd(T_net, s_net)
    IN  RDiv(Sum([j \in DOMAIN T_net |-> OreShare(s_net, total_net, j)]),
             FromInt(VLen(T_net)))

\* line 89: expected_kept_stakes
ExpectedKeptStakes(T_net, s_net) == RDiv(Sum(s_net), FromInt(VLen(T_net)))

\* line 90: expected_rewards_before_fee
ExpectedRewardsBeforeFee(T_net, s_net) ==
    RSub(ExpectedReturn(T_net, s_net), ExpectedKeptStakes(T_net, s_net))

compute_expected_return_and_components(T_net, s_net) ==
    [expected_return |-> ExpectedReturn(T_net, s_net),
     expected_kept_stakes |-> ExpectedKeptStakes(T_net, s_net),
     expected_rewards_before_fee |-> ExpectedRewardsBeforeFee(T_net, s_net),
     ore_expected_raw |-> OreExpectedRaw(T_net, s_net)]

\* a fee added to the reward instead of taken from it
AfterFeeAdded(expected_rewards_before_fee, fee) ==
    RMul(expected_rewards_before_fee, RAdd(FromInt(1), fee))

\* line 118: the protocol fee is taken from the reward portion
AfterFee(expected_rewards_before_fee, fee) ==
    RMul(expected_rewards_before_fee, RSub(FromInt(1), fee))

\* line 119: expected_return_after_protocol_fee
ExpectedReturnAfterProtocolFee(T, s_alloc_gross, fee) ==
    RAdd(ExpectedKeptStakes(T, s_alloc_gross),
         AfterFee(ExpectedRewardsBeforeFee(T, s_alloc_gross), fee))

\* lines 122-123: ev_sol_after_fees
EvSolAfterFees(T, s_alloc_gross, fee) ==
    RSub(ExpectedReturnAfterProtocolFee(T, s_alloc_gross, fee), Sum(s_alloc_gross))

compute_ev(T, s_alloc_gross, fee) ==
    [ev_sol_after_fees |-> EvSolAfterFees(T, s_alloc_gross, fee),
     expected_return_after_protocol_fee |->
         ExpectedReturnAfterProtocolFee(T, s_alloc_gross, fee),
     cost_gross |-> Sum(s_alloc_gross),
     s_net |-> s_alloc_gross,
     T_net |-> T,
     components |-> compute_expected_return_and_components(T, s_alloc_gross)]

\* compute_ev(...)['ev_sol_after_fees'], the one field the allocator reads
Ev(T, alloc, fee) == EvSolAfterFees(T, alloc, fee)

\* lines 166-170: candidate_score - base_score for one more unit on block j
MarginalDelta(T, alloc, u, fee, j) ==
    RSub(Ev(T, AddUnit(alloc, j, u), fee), Ev(T, alloc, fee))

-----------------------------------------------------------------------------
(* The inputs the model draws. *)

\* opponent stakes per block, in multiples of the scale
StakeVals == {0, 10, 30}

\* units: negative, zero, 1 SOL, and the default --unit 0.001
Units == {FromInt(-1), Zero, FromInt(1), Rat(1, 1000)}

\* stakes and budgets are drawn in multiples of the size of the unit
ScaleOf(u) == IF u.num = 0 THEN FromInt(1) ELSE [num |-> Abs(u.num), den |-> u.den]

\* protocol fee rates handed to greedy_optimize: none, and the default 0.10
Fees == {Rat(0, 1), Rat(1, 10)}

\* protocol fee rates handed to compute_ev
EvFees == Fees \cup {Rat(1, 2), Rat(9, 10)}

\* grids shorter than GRID_SIZE, and full grids: a free prefix, then one
\* stake repeated on every remaining block
ShortGrids == UNION {[0..(len - 1) -> StakeVals] : len \in 1..(MaxFree + 1)}

FullGrids ==
    {[j \in 0..(GRID_SIZE - 1) |-> IF j < MaxFree THEN p[j] ELSE fill] :
        p \in [0..(MaxFree - 1) -> StakeVals], fill \in StakeVals}

Grids == ShortGrids \cup FullGrids

ScaleVec(v, q) == [j \in DOMAIN v |-> Scale(v[j], q)]

\* max_iters arguments: None, or an integer
MaxItersArgs == {{}} \cup {{k} : k \in (-1)..MaxItersArg}

\* the value of an integer max_iters
IterCap(m) == CHOOSE k \in m : TRUE

Errors == {"AssertionError", "ZeroDivisionError"}

Terminal == Errors \cup {"return"}

-----------------------------------------------------------------------------
(* greedy_optimize. *)

\* round(x) of a float: to the nearest integer, a tie to the even one
RoundHalfEven(x) ==
    LET f == x.num \div x.den
        twice == 2 * (x.num - f * x.den)
    IN  IF twice < x.den THEN f
        ELSE IF twice > x.den THEN f + 1
        ELSE IF f % 2 = 0 THEN f ELSE f + 1

\* line 143: int(round(budget / unit)), for unit /= 0
UnitsOf(b, u) == RoundHalfEven(RDiv(b, u))

\* line 162: best_delta = -1e18, below every number the model can hold
NEG_1E18 == [num |-> -1, den |-> 0]

\* a scan that lets a later equal delta replace the recorded one
BetterOrEqual(delta, best) == IF best.den = 0 THEN TRUE ELSE RLe(best, delta)

\* line 171: delta > best_delta
Better(delta, best) == IF best.den = 0 THEN TRUE ELSE RLt(best, delta)

\* 1e-12 is 1 / (TOL_ROOT * TOL_ROOT)
TOL_ROOT == 1000000

\* x <= 1e-12, that is x.num * 10^12 <= x.den
LeTolerance(x) == x.num <= (x.den \div TOL_ROOT) \div TOL_ROOT

\* a stopping test with the comparison turned round
ToleranceStopInverted(delta) == ~LeTolerance(delta)

\* a loop that never takes the tolerance break
ToleranceStopNever(delta) == FALSE

\* line 176: stop if no positive marginal EV
ToleranceStop(delta) == LeTolerance(delta)

\* a loop that ignores the iteration cap
RangeUncapped(k, cap) == TRUE

\* line 153: range(max_iters) has a next item
RangeHasNext(k, cap) == k < cap

Init ==
    \E g \in Grids, u \in Units,
       h \in (-MaxHalfUnits)..MaxHalfUnits, f \in Fees, m \in MaxItersArgs :
        /\ T_other_gross = ScaleVec(g, ScaleOf(u))
        /\ budget = RMul(Rat(h, 2), ScaleOf(u))
        /\ unit = u
        /\ protocol_fee = f
        /\ max_iters = m
        /\ pc = "call"
        /\ s = Zeros(VLen(g))
        /\ remaining_units = 0
        /\ step = 0
        /\ base_score = Zero
        /\ best_idx = -1
        /\ best_delta = NEG_1E18
        /\ i = 0
        /\ ev_hist = {}

\* line 141: assert n == 25
AssertFailsGuard ==
    /\ pc = "call"
    /\ VLen(T_other_gross) # GRID_SIZE

AssertFails ==
    /\ AssertFailsGuard
    /\ pc' = "AssertionError"
    /\ UNCHANGED <<T_other_gross, budget, unit, protocol_fee, max_iters, s,
                   remaining_units, step, base_score, best_idx, best_delta, i,
                   ev_hist>>

\* line 143: budget / unit with unit = 0.0
DivisionByZeroGuard ==
    /\ pc = "call"
    /\ VLen(T_other_gross) = GRID_SIZE
    /\ unit.num = 0

DivisionByZero ==
    /\ DivisionByZeroGuard
    /\ pc' = "ZeroDivisionError"
    /\ UNCHANGED <<T_other_gross, budget, unit, protocol_fee, max_iters, s,
                   remaining_units, step, base_score, best_idx, best_delta, i,
                   ev_hist>>

\* lines 142-145: nothing to allocate
EarlyReturnGuard ==
    /\ pc = "call"
    /\ VLen(T_other_gross) = GRID_SIZE
    /\ unit.num # 0
    /\ UnitsOf(budget, unit) <= 0

EarlyReturn ==
    /\ EarlyReturnGuard
    /\ remaining_units' = UnitsOf(budget, unit)
    /\ s' = Zeros(VLen(T_other_gross))
    /\ pc' = "return"
    /\ UNCHANGED <<T_other_gross, budget, unit, protocol_fee, max_iters, step,
                   base_score, best_idx, best_delta, i, ev_hist>>

\* lines 142-151: the setup before the loop
EnterLoopGuard ==
    /\ pc = "call"
    /\ VLen(T_other_gross) = GRID_SIZE
    /\ unit.num # 0
    /\ UnitsOf(budget, unit) > 0

EnterLoop ==
    /\ EnterLoopGuard
    /\ remaining_units' = UnitsOf(budget, unit)
    /\ s' = Zeros(VLen(T_other_gross))
    /\ max_iters' = IF max_iters = {} THEN {UnitsOf(budget, unit)} ELSE max_iters
    /\ step' = 0
    /\ pc' = "for"
    /\ UNCHANGED <<T_other_gross, budget, unit, protocol_fee, base_score,
                   best_idx, best_delta, i, ev_hist>>

\* line 153: range(max_iters) is exhausted
LoopExhaustedGuard ==
    /\ pc = "for"
    /\ ~RangeHasNext(step, IterCap(max_iters))

LoopExhausted ==
    /\ LoopExhaustedGuard
    /\ pc' = "return"
    /\ UNCHANGED <<T_other_gross, budget, unit, protocol_fee, max_iters, s,
                   remaining_units, step, base_score, best_idx, best_delta, i,
                   ev_hist>>

\* lines 153-155: the budget is spent
BudgetSpentGuard ==
    /\ pc = "for"
    /\ RangeHasNext(step, IterCap(max_iters))
    /\ remaining_units <= 0

BudgetSpent ==
    /\ BudgetSpentGuard
    /\ step' = step + 1
    /\ pc' = "return"
    /\ UNCHANGED <<T_other_gross, budget, unit, protocol_fee, max_iters, s,
                   remaining_units, base_score, best_idx, best_delta, i, ev_hist>>

\* lines 153-162: an iteration begins
BeginIterationGuard ==
    /\ pc = "for"
    /\ RangeHasNext(step, IterCap(max_iters))
    /\ remaining_units > 0

BeginIteration ==
    /\ BeginIterationGuard
    /\ step' = step + 1
    /\ base_score' = Ev(T_other_gross, s, protocol_fee)
    /\ best_idx' = -1
    /\ best_delta' = NEG_1E18
    /\ i' = 0
    /\ pc' = "scan"
    /\ UNCHANGED <<T_other_gross, budget, unit, protocol_fee, max_iters, s,
                   remaining_units, ev_hist>>

\* lines 165-173: one candidate of the scan
ScanGuard ==
    /\ pc = "scan"
    /\ i < VLen(T_other_gross)

Scan ==
    /\ ScanGuard
    /\ LET candidate_score == Ev(T_other_gross, AddUnit(s, i, unit), protocol_fee)
           delta == RSub(candidate_score, base_score)
       IN  IF Better(delta, best_delta)
           THEN best_delta' = delta /\ best_idx' = i
           ELSE UNCHANGED <<best_delta, best_idx>>
    /\ i' = i + 1
    /\ pc' = IF i + 1 < VLen(T_other_gross) THEN "scan" ELSE "decide"
    /\ UNCHANGED <<T_other_gross, budget, unit, protocol_fee, max_iters, s,
                   remaining_units, step, base_score, ev_hist>>

\* lines 176-178: no positive marginal EV
StopGuard ==
    /\ pc = "decide"
    /\ ToleranceStop(best_delta)

Stop ==
    /\ StopGuard
    /\ pc' = "return"
    /\ UNCHANGED <<T_other_gross, budget, unit, protocol_fee, max_iters, s,
                   remaining_units, step, base_score, best_idx, best_delta, i,
                   ev_hist>>

\* lines 176-182: allocate one unit to best_idx
CommitGuard ==
    /\ pc = "decide"
    /\ ~ToleranceStop(best_delta)

Commit ==
    /\ CommitGuard
    /\ s' = AddUnit(s, best_idx, unit)
    /\ remaining_units' = remaining_units - 1
    /\ pc' = "for"
    /\ UNCHANGED <<T_other_gross, budget, unit, protocol_fee, max_iters, step,
                   base_score, best_idx, best_delta, i, ev_hist>>

\* some statement of greedy_optimize can run
CanStep ==
    \/ AssertFailsGuard
    \/ DivisionByZeroGuard
    \/ EarlyReturnGuard
    \/ EnterLoopGuard
    \/ LoopExhaustedGuard
    \/ BudgetSpentGuard
    \/ BeginIterationGuard
    \/ ScanGuard
    \/ StopGuard
    \/ CommitGuard

Next ==
    \/ AssertFails
    \/ DivisionByZero
    \/ EarlyReturn
    \/ EnterLoop
    \/ LoopExhausted
    \/ BudgetSpent
    \/ BeginIteration
    \/ Scan
    \/ Stop
    \/ Commit

Spec == Init /\ [][Next]_vars

-----------------------------------------------------------------------------
(* A caller of compute_ev: one pair of vectors, evaluated at several fees. *)

\* allocations handed to compute_ev: whole units on the free prefix, and
\* nothing or one unit on every remaining block
Allocs(n) ==
    {[j \in 0..(n - 1) |-> IF j < MaxFree THEN a[j] ELSE rest] :
        a \in [0..(MaxFree - 1) -> 0..MaxAlloc], rest \in 0..1}

InitEv ==
    \E g \in Grids, u \in Units : \E a \in Allocs(VLen(g)) :
        /\ T_other_gross = ScaleVec(g, ScaleOf(u))
        /\ s = ScaleVec(a, ScaleOf(u))
        /\ budget = Zero
        /\ unit = ScaleOf(u)
        /\ protocol_fee = Zero
        /\ max_iters = {}
        /\ pc = "caller"
        /\ remaining_units = 0
        /\ step = 0
        /\ base_score = Zero
        /\ best_idx = -1
        /\ best_delta = NEG_1E18
        /\ i = 0
        /\ ev_hist = {}

\* lines 99-132: compute_ev(T_other_gross, s, f), its EV recorded; the caller
\* goes through the fee rates in ascending order
EvaluateEv(f) ==
    /\ pc = "caller"
    /\ \A r \in ev_hist : RLt(r.fee, f)
    /\ \A g \in EvFees : RLt(g, f) => \E r \in ev_hist : r.fee = g
    /\ ev_hist' = ev_hist \cup {[fee |-> f, ev |-> Ev(T_other_gross, s, f)]}
    /\ UNCHANGED <<T_other_gross, budget, unit, protocol_fee, max_iters, pc, s,
                   remaining_units, step, base_score, best_idx, best_delta, i>>

NextEv == \E f \in EvFees : EvaluateEv(f)

SpecEv == InitEv /\ [][NextEv]_vars

-----------------------------------------------------------------------------
(* What the properties speak of. *)

n == VLen(T_other_gross)

\* the marginal delta of every block at the current allocation
Deltas ==
    LET base == Ev(T_other_gross, s, protocol_fee)
    IN  [j \in DOMAIN T_other_gross |->
            RSub(Ev(T_other_gross, AddUnit(s, j, unit), protocol_fee), base)]

\* the lowest index whose marginal delta is the largest
LowestArgmax(D) ==
    CHOOSE j \in DOMAIN D :
        /\ \A k \in DOMAIN D : RLe(D[k], D[j])
        /\ \A k \in DOMAIN D : k < j => RLt(D[k], D[j])

\* floor(x)
Floor(x) == x.num \div x.den

\* the number of units committed so far (unit /= 0)
Committed == RDiv(Sum(s), unit).num

\* the iteration cap in force: max_iters, or by default round(budget/unit)
Cap == IF max_iters = {} THEN UnitsOf(budget, unit) ELSE IterCap(max_iters)

Min(a, b) == IF a < b THEN a ELSE b

AtLeastZero(a) == IF a < 0 THEN 0 ELSE a

\* how far the call has come: the iterations begun, then the place in the
\* current one; a call that has ended has come all the way
ProgressBound ==
    IF unit.num = 0 THEN 1 ELSE (AtLeastZero(Cap) + 2) * (n + 3)

Progress ==
    CASE pc = "call"   -> -1
      [] pc = "for"    -> step * (n + 3) + n + 2
      [] pc = "scan"   -> step * (n + 3) + i + 1
      [] pc = "decide" -> step * (n + 3) + n + 1
      [] OTHER         -> ProgressBound

InputsValid ==
    /\ n >= 1
    /\ \A j \in DOMAIN T_other_gross : T_other_gross[j].num >= 0
    /\ budget.num >= 0
    /\ unit.num > 0
    /\ protocol_fee.num >= 0
    /\ RLt(protocol_fee, FromInt(1))

-----------------------------------------------------------------------------
(* C1.  Budget conservation: for unit > 0 (and a budget >= 0) the sum of   *)
(* the allocation never exceeds floor(budget/unit) * unit.  The program    *)
(* rounds budget/unit to the nearest integer instead, so a budget of 1.5   *)
(* units commits 2 units.                                                  *)
C1_BudgetConservation ==
    (unit.num > 0 /\ budget.num >= 0)
        => RLe(Sum(s), Scale(Floor(RDiv(budget, unit)), unit))

(* C2.  Degenerate inputs are a no-op: on a full grid, whenever            *)
(* budget <= 0 or unit <= 0, greedy_optimize raises no error and its       *)
(* allocation stays all-zero.  The program divides by unit = 0, and with   *)
(* budget and unit both negative it commits negative units.                *)
C2_DegenerateNoOp ==
    (n = GRID_SIZE /\ (budget.num <= 0 \/ unit.num <= 0))
        => (pc \notin Errors /\ s = Zeros(n))

(* C3.  Defined for any n >= 1: for valid inputs no error or assertion     *)
(* failure comes out of greedy_optimize, and the allocation has length n.  *)
(* The program asserts n == 25.                                            *)
C3_DefinedForAnyN ==
    InputsValid => (pc \notin Errors /\ VLen(s) = n)

(* C4.  Tie-break stability: every unit greedy_optimize commits goes to    *)
(* the lowest index among the blocks whose marginal delta is the largest   *)
(* of that iteration.                                                      *)
C4_TieBreak ==
    [][(pc = "decide" /\ s' # s)
          => LET D == Deltas
             IN  s' = AddUnit(s, LowestArgmax(D), unit)]_vars

\* a unit is about to be committed where a later block ties with the best
C4_Witness ==
    /\ pc = "decide"
    /\ ~ToleranceStop(best_delta)
    /\ LET D == Deltas
       IN  /\ \E k \in DOMAIN D : k > best_idx /\ D[k] = best_delta
           /\ best_idx = LowestArgmax(D)

(* C5.  Termination under the iteration cap: the loop never begins more    *)
(* than maxIters iterations (maxIters defaulting to round(budget/unit)),   *)
(* never commits more than min(maxIters, round(budget/unit)) units, and    *)
(* the call always comes to an end: every step moves the call forward, its *)
(* progress is bounded by the cap, and it stops only at a return or an     *)
(* exception.                                                              *)
C5_Termination ==
    /\ [](unit.num # 0 =>
            /\ step <= AtLeastZero(Cap)
            /\ Committed <= AtLeastZero(Min(Cap, UnitsOf(budget, unit))))
    /\ [][Progress' > Progress]_vars
    /\ [](Progress <= ProgressBound)
    /\ [](pc \in Terminal \/ CanStep)

\* the cap ended the loop while units remained and deltas were still positive
C5_Witness ==
    /\ pc = "return"
    /\ remaining_units > 0
    /\ step = Cap
    /\ Committed >= 1
    /\ LET D == Deltas
       IN  \E j \in DOMAIN D : ~LeTolerance(D[j])

(* C6.  Zero-pool unprofitability: for stakes [0, 0], budget 0.002, unit   *)
(* 0.001 and fee 0 every first candidate has marginal delta -0.0005, and   *)
(* greedy_optimize ends by returning the all-zero allocation.  The deltas  *)
(* are as stated; the call ends in the assertion n == 25.                  *)
C6_ZeroPool ==
    (/\ T_other_gross = Zeros(2)
     /\ budget = Rat(2, 1000)
     /\ unit = Rat(1, 1000)
     /\ protocol_fee = Zero
     /\ pc \in Terminal)
        => /\ \A j \in 0..1 :
                MarginalDelta(T_other_gross, Zeros(2), unit, protocol_fee, j)
                    = Rat(-1, 2000)
           /\ pc = "return"
           /\ s = Zeros(2)

(* C7.  Leverage preference: for stakes [10, 0], budget 1, unit 1 and fee  *)
(* 0 greedy_optimize returns the allocation [0, 1].  The call ends in the  *)
(* assertion n == 25.                                                      *)
C7_Leverage ==
    (/\ T_other_gross = [j \in 0..1 |-> IF j = 0 THEN FromInt(10) ELSE Zero]
     /\ budget = FromInt(1)
     /\ unit = FromInt(1)
     /\ protocol_fee = Zero
     /\ pc \in Terminal)
        => /\ pc = "return"
           /\ s = [j \in 0..1 |-> IF j = 0 THEN Zero ELSE FromInt(1)]

(* C8.  Fee monotonicity: for fixed non-negative stakes and allocation,    *)
(* and fee rates f1 <= f2 in [0,1), the EV at f2 is at most the EV at f1.  *)
C8_FeeMonotone ==
    \A a \in ev_hist : \A b \in ev_hist :
        RLe(a.fee, b.fee) => RLe(b.ev, a.ev)

\* a higher fee that made the EV strictly smaller
C8_Witness ==
    \E a \in ev_hist : \E b \in ev_hist :
        RLt(a.fee, b.fee) /\ RLt(b.ev, a.ev)

(* C9.  Stopping rule: a unit is committed only in an iteration whose best *)
(* marginal delta is strictly above 1e-12; the iteration that stops the    *)
(* loop leaves the allocation and remaining_units as they were; and when   *)
(* the call returns with units remaining and fewer than maxIters           *)
(* iterations begun, one more unit on any block gains at most 1e-12.       *)
C9_StoppingRule ==
    /\ [][s' # s =>
            /\ pc = "decide"
            /\ ~LeTolerance(best_delta)
            /\ LET D == Deltas
               IN  \A j \in DOMAIN D : RLe(D[j], best_delta)]_vars
    /\ [][(pc = "decide" /\ LeTolerance(best_delta))
            => (s' = s /\ remaining_units' = remaining_units
                /\ pc' = "return")]_vars
    /\ []((pc = "return" /\ remaining_units > 0 /\ step < Cap)
            => LET D == Deltas
               IN  \A j \in DOMAIN D : LeTolerance(D[j]))

\* the tolerance stopped the loop after a unit was committed
C9_Witness ==
    /\ pc = "return"
    /\ remaining_units > 0
    /\ step < Cap
    /\ Committed >= 1

(* C10.  The EV of the allocation is 0 at the all-zero allocation and      *)
(* strictly increases with every unit committed; so for a budget >= 0 and  *)
(* a unit > 0 the allocation returned has EV >= 0.                         *)
C10_EvIncreases ==
    /\ [](pc = "call" => Ev(T_other_gross, s, protocol_fee) = Zero)
    /\ [][s' # s => RLt(Ev(T_other_gross, s, protocol_fee),
                        Ev(T_other_gross, s', protocol_fee))]_vars
    /\ []((pc = "return" /\ budget.num >= 0 /\ unit.num > 0)
            => RLe(Zero, Ev(T_other_gross, s, protocol_fee)))

\* two units committed and returned, at a positive EV
C10_Witness ==
    /\ pc = "return"
    /\ unit.num > 0
    /\ Committed >= 2
    /\ RLt(Zero, Ev(T_other_gross, s, protocol_fee))

====
